---- MODULE Spec2Model ----
(***************************************************************************)
(* Model of src/frontend/index.js (TLDRBlock): the button-triggered run    *)
(* onButtonClick = getSummariesAsync followed by                           *)
(* updateRecordsInBatchesAsync, with the React state of the block, the     *)
(* summarization service and the host table as environment.                *)
(*                                                                         *)
(* Every `await` of the source is a suspension point and gets its own      *)
(* value of pc.  The code that runs between two suspension points is one   *)
(* action.                                                                 *)
(***************************************************************************)
EXTENDS Integers, Sequences, FiniteSets, TLC

\* ---------------------------------------------------------------- bounds
\* the host table holds 0..SmallRows records, or a number of records at a batch
\* boundary: MAX_RECORDS_PER_UPDATE or twice that, plus 0..BoundarySlack
SmallRows == 3
BoundarySlack == 1
\* longest list of updates handed to the writer in WriterSpec
MaxUpdates == 120

\* ------------------------------------------------------------- constants
SUMMARY_FIELD_NAME == "Summary"
MAX_RECORDS_PER_UPDATE == 50
INVALID_API_KEY == "INVALID API KEY"
DefaultLength == 7

\* JavaScript's undefined, for the string-valued fields of a response
Undefined == "undefined"
\* the return value of getSummariesAsync: an array, or undefined
NoUpdates == [present |-> FALSE, list |-> <<>>]
SomeUpdates(list) == [present |-> TRUE, list |-> list]

RowCounts == (0..SmallRows) \cup
             {m * MAX_RECORDS_PER_UPDATE + d : m \in 1..2, d \in 0..BoundarySlack}

ApiKeys == {"", "key"}
SentenceCounts == {"", "3"}
Urls == <<"a.com", "b.com", "c.com">>

\* ------------------------------------------------------------ host table
\* The records useRecords hands to the block: n records; ids are not the
\* positions, so that order by position and order by id differ.
Rows(n) == [k \in 1..n |-> [id |-> n + 1 - k, url |-> Urls[((k - 1) % Len(Urls)) + 1]]]

\* The summary field of every record, before anything is written.
EmptyTable(n) == [id \in 1..n |-> ""]

\* ------------------------------------------------- summarization service
\* The sm_api_content the service answers for a url.
SummaryOf(url) == CASE url = "a.com" -> "S1"
                    [] url = "b.com" -> "S2"
                    [] OTHER -> "S3"
SuccessResponse(url) == [sm_api_message |-> Undefined, sm_api_content |-> SummaryOf(url)]
InvalidKeyResponse == [sm_api_message |-> INVALID_API_KEY, sm_api_content |-> Undefined]

\* ------------------------------------------------------- pure helpers
Min(a, b) == IF a < b THEN a ELSE b

\* Array.prototype.slice(from, to) for 0 <= from <= to: 0-based, `to` exclusive,
\* clamped to the array's length.
Slice(s, from, to) == SubSeq(s, from + 1, Min(to, Len(s)))

\* line 106-107: the request url, as its three variable parts
RequestUrl(key, sentences, url) ==
    [key |-> key, length |-> IF sentences # "" THEN sentences ELSE ToString(DefaultLength), url |-> url]

\* line 118-123: the update pushed for a record and its parsed response
FieldUpdateWrongField(record, pageSummary) ==
    [id |-> record.id, fields |-> [f \in {SUMMARY_FIELD_NAME} |-> pageSummary.sm_api_message]]

FieldUpdate(record, pageSummary) ==
    [id |-> record.id, fields |-> [f \in {SUMMARY_FIELD_NAME} |-> pageSummary.sm_api_content]]

UpdateBatchOneTooMany(updates, iv) == Slice(updates, iv, iv + MAX_RECORDS_PER_UPDATE + 1)

\* line 134: the batch sliced at offset i
UpdateBatch(updates, iv) == Slice(updates, iv, iv + MAX_RECORDS_PER_UPDATE)

\* table.updateRecordsAsync(batch), once it has resolved
ApplyBatch(t, batch) ==
    [id \in DOMAIN t |->
        IF \E j \in 1..Len(batch) : batch[j].id = id
        THEN LET j == CHOOSE j \in 1..Len(batch) : batch[j].id = id
             IN  batch[j].fields[SUMMARY_FIELD_NAME]
        ELSE t[id]]

VARIABLES
    records,            \* useRecords(table): the records the run iterates
    table,              \* host: record id -> value of the Summary field
    hasPermission,      \* permissionCheck.hasPermission
    apiKey,             \* useState('')
    numOfSentences,     \* useState('')
    isUpdateInProgress, \* useState(false)
    invalidApi,         \* useState(false)
    pc,                 \* where the run is suspended
    idx,                \* getSummariesAsync: records fully processed
    recordUpdates,      \* getSummariesAsync: the local accumulator
    passed,             \* onButtonClick: recordUpdates, the value handed to the writer
    i,                  \* updateRecordsInBatchesAsync: the offset i
    outstanding,        \* external calls issued and not yet settled
    requests,           \* history: request urls issued in this run
    responses,          \* history: parsed responses received in this run
    writeCalls,         \* history: batches handed to updateRecordsAsync in this run
    writesResolved,     \* history: updateRecordsAsync calls that resolved in this run
    outcome,            \* history: how the latest run went
    inFlight,           \* history: invocations of onButtonClick not yet settled
    flagBefore          \* history: invalidApi when the latest run started

vars == <<records, table, hasPermission, apiKey, numOfSentences, isUpdateInProgress,
          invalidApi, pc, idx, recordUpdates, passed, i, outstanding, requests,
          responses, writeCalls, writesResolved, outcome, inFlight, flagBefore>>

Init ==
    /\ \E n \in RowCounts : records = Rows(n) /\ table = EmptyTable(n)
    /\ hasPermission \in BOOLEAN
    /\ apiKey = ""
    /\ numOfSentences = ""
    /\ isUpdateInProgress = FALSE
    /\ invalidApi = FALSE
    /\ pc = "idle"
    /\ idx = 0
    /\ recordUpdates = <<>>
    /\ passed = NoUpdates
    /\ i = 0
    /\ outstanding = {}
    /\ requests = <<>>
    /\ responses = <<>>
    /\ writeCalls = <<>>
    /\ writesResolved = 0
    /\ outcome = "none"
    /\ inFlight = 0
    /\ flagBefore = FALSE

FormRenderedAlways == TRUE

\* line 59-96: the form and the button are rendered only when no update is in progress
FormRendered == ~isUpdateInProgress

\* line 82-89: the button can be clicked
ButtonEnabled == FormRendered /\ hasPermission /\ apiKey # ""

\* line 65
SetApiKey(k) ==
    /\ FormRendered
    /\ apiKey' = k
    /\ UNCHANGED <<records, table, hasPermission, numOfSentences, isUpdateInProgress,
                   invalidApi, pc, idx, recordUpdates, passed, i, outstanding, requests,
                   responses, writeCalls, writesResolved, outcome, inFlight, flagBefore>>

\* line 69
SetNumOfSentences(s) ==
    /\ FormRendered
    /\ numOfSentences' = s
    /\ UNCHANGED <<records, table, hasPermission, apiKey, isUpdateInProgress,
                   invalidApi, pc, idx, recordUpdates, passed, i, outstanding, requests,
                   responses, writeCalls, writesResolved, outcome, inFlight, flagBefore>>

\* the loop with the request for the following record issued ahead of the response
GetSummariesLoopPrefetch(k, acc, out, reqs) ==
    /\ idx' = k
    /\ recordUpdates' = acc
    /\ IF k < Len(records)
       THEN /\ requests' = Append(reqs, RequestUrl(apiKey, numOfSentences, records[k + 1].url))
            /\ outstanding' = out \cup {[kind |-> "fetch", n |-> k + 1]}
                                  \cup (IF k + 1 < Len(records)
                                        THEN {[kind |-> "fetch", n |-> k + 2]} ELSE {})
            /\ pc' = "awaitFetch"
            /\ passed' = NoUpdates
       ELSE /\ requests' = reqs
            /\ outstanding' = out
            /\ pc' = "awaitSummaries"
            /\ passed' = SomeUpdates(acc)

\* line 103-109 and 126: the for loop of getSummariesAsync, entered with k records
\* processed and accumulator acc: either the next request is issued and the
\* function suspends on it, or the loop is over and acc is returned to line 41.
GetSummariesLoop(k, acc, out, reqs) ==
    /\ idx' = k
    /\ recordUpdates' = acc
    /\ IF k < Len(records)
       THEN /\ requests' = Append(reqs, RequestUrl(apiKey, numOfSentences, records[k + 1].url))
            /\ outstanding' = out \cup {[kind |-> "fetch", n |-> k + 1]}
            /\ pc' = "awaitFetch"
            /\ passed' = NoUpdates
       ELSE /\ requests' = reqs
            /\ outstanding' = out
            /\ pc' = "awaitSummaries"
            /\ passed' = SomeUpdates(acc)

\* line 39-41: the click handler up to its first suspension
OnButtonClick ==
    /\ ButtonEnabled
    /\ isUpdateInProgress' = TRUE
    /\ inFlight' = inFlight + 1
    /\ flagBefore' = invalidApi
    /\ outcome' = "running"
    /\ responses' = <<>>
    /\ writeCalls' = <<>>
    /\ writesResolved' = 0
    /\ i' = 0
    /\ GetSummariesLoop(0, <<>>, outstanding, <<>>)
    /\ UNCHANGED <<records, table, hasPermission, apiKey, numOfSentences, invalidApi>>

\* FetchOk without line 116
FetchOkNoClear ==
    /\ pc = "awaitFetch"
    /\ LET call == [kind |-> "fetch", n |-> idx + 1]
           record == records[idx + 1]
           pageSummary == SuccessResponse(record.url)
       IN  /\ call \in outstanding
           /\ responses' = Append(responses, pageSummary)
           /\ GetSummariesLoop(idx + 1, Append(recordUpdates, FieldUpdate(record, pageSummary)),
                               outstanding \ {call}, requests)
    /\ UNCHANGED <<records, table, hasPermission, apiKey, numOfSentences, isUpdateInProgress,
                   invalidApi, i, writeCalls, writesResolved, outcome, inFlight, flagBefore>>

\* line 108-109 resolve without the sentinel; line 116-124, then the loop goes on
FetchOk ==
    /\ pc = "awaitFetch"
    /\ LET call == [kind |-> "fetch", n |-> idx + 1]
           record == records[idx + 1]
           pageSummary == SuccessResponse(record.url)
       IN  /\ call \in outstanding
           /\ responses' = Append(responses, pageSummary)
           /\ invalidApi' = FALSE
           /\ GetSummariesLoop(idx + 1, Append(recordUpdates, FieldUpdate(record, pageSummary)),
                               outstanding \ {call}, requests)
    /\ UNCHANGED <<records, table, hasPermission, apiKey, numOfSentences, isUpdateInProgress,
                   i, writeCalls, writesResolved, outcome, inFlight, flagBefore>>

\* FetchInvalidKey with `continue` in place of `return` at line 113
FetchInvalidKeyContinue ==
    /\ pc = "awaitFetch"
    /\ LET call == [kind |-> "fetch", n |-> idx + 1]
       IN  /\ call \in outstanding
           /\ GetSummariesLoop(idx + 1, recordUpdates, outstanding \ {call}, requests)
    /\ responses' = Append(responses, InvalidKeyResponse)
    /\ invalidApi' = TRUE
    /\ outcome' = "invalidKey"
    /\ UNCHANGED <<records, table, hasPermission, apiKey, numOfSentences, isUpdateInProgress,
                   i, writeCalls, writesResolved, inFlight, flagBefore>>

\* FetchInvalidKey with `return recordUpdates` at line 113
FetchInvalidKeyPartial ==
    /\ pc = "awaitFetch"
    /\ LET call == [kind |-> "fetch", n |-> idx + 1]
       IN  /\ call \in outstanding
           /\ outstanding' = outstanding \ {call}
    /\ responses' = Append(responses, InvalidKeyResponse)
    /\ invalidApi' = TRUE
    /\ passed' = SomeUpdates(recordUpdates)
    /\ pc' = "awaitSummaries"
    /\ outcome' = "invalidKey"
    /\ UNCHANGED <<records, table, hasPermission, apiKey, numOfSentences, isUpdateInProgress,
                   idx, recordUpdates, i, requests, writeCalls, writesResolved, inFlight,
                   flagBefore>>

\* line 111-114: the response carries the sentinel; the function returns undefined
FetchInvalidKey ==
    /\ pc = "awaitFetch"
    /\ LET call == [kind |-> "fetch", n |-> idx + 1]
       IN  /\ call \in outstanding
           /\ outstanding' = outstanding \ {call}
    /\ responses' = Append(responses, InvalidKeyResponse)
    /\ invalidApi' = TRUE
    /\ passed' = NoUpdates
    /\ pc' = "awaitSummaries"
    /\ outcome' = "invalidKey"
    /\ UNCHANGED <<records, table, hasPermission, apiKey, numOfSentences, isUpdateInProgress,
                   idx, recordUpdates, i, requests, writeCalls, writesResolved, inFlight,
                   flagBefore>>

\* FetchFault with the rejection caught per record and the loop going on
FetchFaultSkipRecord ==
    /\ pc = "awaitFetch"
    /\ LET call == [kind |-> "fetch", n |-> idx + 1]
       IN  /\ call \in outstanding
           /\ GetSummariesLoop(idx + 1, recordUpdates, outstanding \ {call}, requests)
    /\ outcome' = "fetchFault"
    /\ UNCHANGED <<records, table, hasPermission, apiKey, numOfSentences, isUpdateInProgress,
                   invalidApi, i, responses, writeCalls, writesResolved, inFlight, flagBefore>>

\* line 108-109: fetch or response.json() rejects; nothing catches it, so
\* getSummariesAsync and then onButtonClick (line 41) reject
FetchFault ==
    /\ pc = "awaitFetch"
    /\ LET call == [kind |-> "fetch", n |-> idx + 1]
       IN  /\ call \in outstanding
           /\ outstanding' = outstanding \ {call}
    /\ pc' = "idle"
    /\ outcome' = "fetchFault"
    /\ inFlight' = inFlight - 1
    /\ UNCHANGED <<records, table, hasPermission, apiKey, numOfSentences, isUpdateInProgress,
                   invalidApi, idx, recordUpdates, passed, i, requests, responses,
                   writeCalls, writesResolved, flagBefore>>

\* line 131-140: the while loop of updateRecordsInBatchesAsync entered at offset iv:
\* either the next batch is handed to the host and the function suspends on it,
\* or the function returns to line 42.
UpdateLoop(iv, out) ==
    /\ i' = iv
    /\ IF passed.present /\ iv < Len(passed.list)
       THEN /\ writeCalls' = Append(writeCalls, UpdateBatch(passed.list, iv))
            /\ outstanding' = out \cup {[kind |-> "write", n |-> Len(writeCalls) + 1]}
            /\ pc' = "awaitWrite"
       ELSE /\ writeCalls' = writeCalls
            /\ outstanding' = out
            /\ pc' = "awaitWriter"

\* line 41-42: getSummariesAsync has resolved; the writer is called with its value
CallWriter ==
    /\ pc = "awaitSummaries"
    /\ UpdateLoop(0, outstanding)
    /\ UNCHANGED <<records, table, hasPermission, apiKey, numOfSentences, isUpdateInProgress,
                   invalidApi, idx, recordUpdates, passed, requests, responses,
                   writesResolved, outcome, inFlight, flagBefore>>

\* line 137-138: updateRecordsAsync resolves; i += MAX_RECORDS_PER_UPDATE
WriteResolve ==
    /\ pc = "awaitWrite"
    /\ LET call == [kind |-> "write", n |-> Len(writeCalls)]
       IN  /\ call \in outstanding
           /\ table' = ApplyBatch(table, writeCalls[Len(writeCalls)])
           /\ writesResolved' = writesResolved + 1
           /\ UpdateLoop(i + MAX_RECORDS_PER_UPDATE, outstanding \ {call})
    /\ UNCHANGED <<records, hasPermission, apiKey, numOfSentences, isUpdateInProgress,
                   invalidApi, idx, recordUpdates, passed, requests, responses,
                   outcome, inFlight, flagBefore>>

\* WriteReject with the rejection caught per batch and the loop going on
WriteRejectContinue ==
    /\ pc = "awaitWrite"
    /\ LET call == [kind |-> "write", n |-> Len(writeCalls)]
       IN  /\ call \in outstanding
           /\ UpdateLoop(i + MAX_RECORDS_PER_UPDATE, outstanding \ {call})
    /\ outcome' = "writeFault"
    /\ UNCHANGED <<records, table, hasPermission, apiKey, numOfSentences, isUpdateInProgress,
                   invalidApi, idx, recordUpdates, passed, requests, responses,
                   writesResolved, inFlight, flagBefore>>

\* line 137: updateRecordsAsync rejects; nothing catches it, so
\* updateRecordsInBatchesAsync and then onButtonClick (line 42) reject
WriteReject ==
    /\ pc = "awaitWrite"
    /\ LET call == [kind |-> "write", n |-> Len(writeCalls)]
       IN  /\ call \in outstanding
           /\ outstanding' = outstanding \ {call}
    /\ pc' = "idle"
    /\ outcome' = "writeFault"
    /\ inFlight' = inFlight - 1
    /\ UNCHANGED <<records, table, hasPermission, apiKey, numOfSentences, isUpdateInProgress,
                   invalidApi, idx, recordUpdates, passed, i, requests, responses,
                   writeCalls, writesResolved, flagBefore>>

\* line 42-44: the writer has resolved; the flag is reset and the handler returns
FinishRun ==
    /\ pc = "awaitWriter"
    /\ isUpdateInProgress' = FALSE
    /\ pc' = "idle"
    /\ outcome' = IF outcome = "running" THEN "completed" ELSE outcome
    /\ inFlight' = inFlight - 1
    /\ UNCHANGED <<records, table, hasPermission, apiKey, numOfSentences, invalidApi, idx,
                   recordUpdates, passed, i, outstanding, requests, responses, writeCalls,
                   writesResolved, flagBefore>>

\* line 22: between runs the user replaces the rows of the table and useRecords
\* re-renders the block with them; the React state is kept.  (A run iterates the
\* records of the render it was started from.)  The history of the latest run
\* is forgotten.
RecordsChange ==
    /\ pc = "idle"
    /\ \E n \in RowCounts : records' = Rows(n) /\ table' = EmptyTable(n)
    /\ idx' = 0
    /\ recordUpdates' = <<>>
    /\ passed' = NoUpdates
    /\ i' = 0
    /\ requests' = <<>>
    /\ responses' = <<>>
    /\ writeCalls' = <<>>
    /\ writesResolved' = 0
    /\ outcome' = "none"
    /\ flagBefore' = invalidApi
    /\ UNCHANGED <<hasPermission, apiKey, numOfSentences, isUpdateInProgress, invalidApi,
                   pc, outstanding, inFlight>>

Next ==
    \/ \E k \in ApiKeys : SetApiKey(k)
    \/ \E s \in SentenceCounts : SetNumOfSentences(s)
    \/ OnButtonClick
    \/ FetchOk
    \/ FetchInvalidKey
    \/ FetchFault
    \/ CallWriter
    \/ WriteResolve
    \/ WriteReject
    \/ FinishRun
    \/ RecordsChange

Spec == Init /\ [][Next]_vars

\* ------------------------------------------------------------ the writer alone
\* The updates getSummariesAsync returns for n records that all succeed.
AllUpdates(n) == [k \in 1..n |-> FieldUpdate(Rows(n)[k], SuccessResponse(Rows(n)[k].url))]

\* line 41-42: the states in which getSummariesAsync has just resolved, for every
\* number of records up to MaxUpdates: either every record succeeded, or the
\* first response carried the sentinel and the value is undefined.
WriterInit ==
    /\ \E n \in 0..MaxUpdates, halted \in BOOLEAN :
          /\ halted => n >= 1
          /\ records = Rows(n)
          /\ table = EmptyTable(n)
          /\ invalidApi = halted
          /\ idx = IF halted THEN 0 ELSE n
          /\ recordUpdates = IF halted THEN <<>> ELSE AllUpdates(n)
          /\ passed = IF halted THEN NoUpdates ELSE SomeUpdates(AllUpdates(n))
          /\ requests = [k \in 1..(IF halted THEN 1 ELSE n) |-> RequestUrl("key", "", Rows(n)[k].url)]
          /\ responses = IF halted THEN <<InvalidKeyResponse>>
                         ELSE [k \in 1..n |-> SuccessResponse(Rows(n)[k].url)]
          /\ outcome = IF halted THEN "invalidKey" ELSE "running"
    /\ hasPermission = TRUE
    /\ apiKey = "key"
    /\ numOfSentences = ""
    /\ isUpdateInProgress = TRUE
    /\ pc = "awaitSummaries"
    /\ i = 0
    /\ outstanding = {}
    /\ writeCalls = <<>>
    /\ writesResolved = 0
    /\ inFlight = 1
    /\ flagBefore = FALSE

WriterNext ==
    \/ CallWriter
    \/ WriteResolve
    \/ WriteReject
    \/ FinishRun

WriterSpec == WriterInit /\ [][WriterNext]_vars

\* ------------------------------------------------------------------ properties
\* the array the writer iterates: nothing when it was handed undefined
PassedList == IF passed.present THEN passed.list ELSE <<>>

RECURSIVE Flatten(_)
Flatten(batches) == IF batches = <<>> THEN <<>> ELSE Head(batches) \o Flatten(Tail(batches))

CeilDiv(a, b) == (a + b - 1) \div b

\* getSummariesAsync has resolved (it did not reject)
FetcherReturned ==
    \/ pc \in {"awaitSummaries", "awaitWrite", "awaitWriter"}
    \/ pc = "idle" /\ outcome \in {"completed", "invalidKey", "writeFault"}

\* updateRecordsInBatchesAsync has resolved (it did not reject)
WriterReturned ==
    \/ pc = "awaitWriter"
    \/ pc = "idle" /\ outcome \in {"completed", "invalidKey"}

\* the run has ended and no fault aborted it
RunEndedWithoutFault == pc = "idle" /\ outcome \in {"completed", "invalidKey"}

AuthFailureSeen == \E j \in 1..Len(responses) : responses[j].sm_api_message = INVALID_API_KEY

\* the updates for the responses received before the first one with the sentinel
ResultsBeforeAuthFailure ==
    LET stop == IF AuthFailureSeen
                THEN CHOOSE j \in 1..Len(responses) :
                        /\ responses[j].sm_api_message = INVALID_API_KEY
                        /\ \A h \in 1..(j - 1) : responses[h].sm_api_message # INVALID_API_KEY
                ELSE Len(responses) + 1
    IN  [j \in 1..(stop - 1) |-> FieldUpdate(records[j], responses[j])]

\* C1: for a list of L updates (L >= 0, or no list) the writer issues exactly
\* ceil(L/50) calls, each of at most 50 updates, every one but the last of exactly
\* 50, and the batches concatenated in issue order are the list.
C1_BatchesPartitionUpdates ==
    LET L == Len(PassedList)
    IN  /\ \A k \in 1..Len(writeCalls) :
              /\ Len(writeCalls[k]) >= 1
              /\ Len(writeCalls[k]) <= MAX_RECORDS_PER_UPDATE
              /\ k < Len(writeCalls) => Len(writeCalls[k]) = MAX_RECORDS_PER_UPDATE
        /\ Len(Flatten(writeCalls)) <= L
        /\ Flatten(writeCalls) = SubSeq(PassedList, 1, Len(Flatten(writeCalls)))
        /\ Len(writeCalls) <= CeilDiv(L, MAX_RECORDS_PER_UPDATE)
        /\ WriterReturned =>
              /\ Len(writeCalls) = CeilDiv(L, MAX_RECORDS_PER_UPDATE)
              /\ Flatten(writeCalls) = PassedList

\* the writer has returned after batches of 50, 50 and 20 updates
C1_Witness ==
    /\ WriterReturned
    /\ Len(PassedList) = 2 * MAX_RECORDS_PER_UPDATE + 20
    /\ Len(writeCalls) = 3
    /\ Len(writeCalls[1]) = MAX_RECORDS_PER_UPDATE
    /\ Len(writeCalls[2]) = MAX_RECORDS_PER_UPDATE
    /\ Len(writeCalls[3]) = 20

\* C2: when the response for the n-th row carries "INVALID API KEY",
\* getSummariesAsync returns no update, the run issues no host write call, and
\* no request is issued for a row after the n-th, whatever n is and however
\* many rows before it succeeded.
C2_InvalidKeyDiscardsAll ==
    outcome = "invalidKey" =>
        /\ ~passed.present
        /\ PassedList = <<>>
        /\ writeCalls = <<>>
        /\ writesResolved = 0
        /\ outstanding = {}
        /\ Len(requests) = Len(responses)
        /\ responses[Len(responses)].sm_api_message = INVALID_API_KEY
        /\ \A j \in 1..(Len(responses) - 1) : responses[j].sm_api_message # INVALID_API_KEY

\* a run halted by the sentinel on its third row has ended
C2_Witness ==
    /\ outcome = "invalidKey"
    /\ pc = "idle"
    /\ Len(responses) = 3
    /\ Len(recordUpdates) = 2

\* C3: at most one run is in flight, and while a run is in flight the button
\* is not available.
C3_AtMostOneRun ==
    /\ inFlight \in {0, 1}
    /\ inFlight = 1 <=> pc # "idle"
    /\ inFlight = 1 => ~FormRendered /\ ~ButtonEnabled /\ ~ENABLED OnButtonClick

\* a run is awaiting its second write while the api key is set and permitted
C3_Witness ==
    /\ inFlight = 1
    /\ pc = "awaitWrite"
    /\ Len(writeCalls) = 2
    /\ hasPermission
    /\ apiKey # ""

\* C4 as stated: the updates handed to the writer are the results obtained
\* before the first AuthFailure (all results when there is none), and nothing
\* is handed to the writer while the fetch stage iterates.
C4_PassedIsPrefixBeforeAuthFailure ==
    /\ FetcherReturned => PassedList = ResultsBeforeAuthFailure
    /\ pc = "awaitFetch" => ~passed.present /\ writeCalls = <<>>

\* C4 amended: the updates handed to the writer are all the fetch results when
\* no response carried the sentinel, and none at all when one did; nothing is
\* handed to the writer while the fetch stage iterates.
C4_PassedIsAllOrNothing ==
    /\ FetcherReturned =>
          PassedList = IF AuthFailureSeen THEN <<>> ELSE ResultsBeforeAuthFailure
    /\ FetcherReturned /\ ~AuthFailureSeen => Len(PassedList) = Len(records)
    /\ pc = "awaitFetch" => ~passed.present /\ writeCalls = <<>>

\* the fetch stage has just returned after two successes and a sentinel
C4_Witness ==
    /\ pc = "awaitSummaries"
    /\ AuthFailureSeen
    /\ Len(ResultsBeforeAuthFailure) = 2
    /\ PassedList = <<>>

\* C5: at most one external call is outstanding; requests are issued in row
\* order, request j+1 only after response j; write k+1 only after write k
\* resolved; the first write only after the last response was processed.
C5_SequentialCalls ==
    /\ Cardinality(outstanding) <= 1
    /\ Len(requests) <= Len(records)
    /\ \A j \in 1..Len(requests) :
          /\ requests[j].url = records[j].url
          /\ pc # "idle" => requests[j] = RequestUrl(apiKey, numOfSentences, records[j].url)
    /\ Len(responses) <= Len(requests)
    /\ Len(requests) <= Len(responses) + 1
    /\ \A c \in outstanding :
          \/ c.kind = "fetch" /\ c.n = Len(requests) /\ Len(responses) = c.n - 1
                              /\ writeCalls = <<>>
          \/ c.kind = "write" /\ c.n = Len(writeCalls) /\ writesResolved = c.n - 1
    /\ writesResolved <= Len(writeCalls)
    /\ Len(writeCalls) <= writesResolved + 1
    /\ writeCalls # <<>> =>
          /\ Len(responses) = Len(records)
          /\ idx = Len(records)
          /\ passed.present

\* the second write is outstanding, alone, after all responses
C5_Witness ==
    /\ outstanding = {[kind |-> "write", n |-> 2]}
    /\ writesResolved = 1
    /\ Len(responses) > MAX_RECORDS_PER_UPDATE

\* C6: when every response is a success, getSummariesAsync returns one update
\* per row, in row order, the j-th with the j-th row's id and the Summary
\* field set to the sm_api_content of the j-th response; the empty list for no rows.
C6_OneUpdatePerRow ==
    FetcherReturned /\ ~AuthFailureSeen =>
        /\ passed.present
        /\ Len(passed.list) = Len(records)
        /\ Len(responses) = Len(records)
        /\ \A j \in 1..Len(records) :
              /\ passed.list[j].id = records[j].id
              /\ DOMAIN passed.list[j].fields = {SUMMARY_FIELD_NAME}
              /\ passed.list[j].fields[SUMMARY_FIELD_NAME] = responses[j].sm_api_content
              /\ responses[j].sm_api_content = SummaryOf(records[j].url)

\* three rows have been summarized and the list has just been returned
C6_Witness ==
    /\ pc = "awaitSummaries"
    /\ passed.present
    /\ Len(records) = 3
    /\ Len(passed.list) = 3
    /\ passed.list[1].id # passed.list[2].id
    /\ passed.list[1].fields[SUMMARY_FIELD_NAME] # passed.list[2].fields[SUMMARY_FIELD_NAME]

\* C7: when the host rejects the k-th write call the run is aborted: the
\* batches of calls 1..k-1 remain applied, the k-th batch is not retried and no
\* later call is issued.
C7_WriteFailureAborts ==
    outcome = "writeFault" =>
        /\ pc = "idle"
        /\ inFlight = 0
        /\ outstanding = {}
        /\ Len(writeCalls) = writesResolved + 1
        /\ \A k \in 1..Len(writeCalls) : writeCalls[k] = UpdateBatch(passed.list, (k - 1) * MAX_RECORDS_PER_UPDATE)
        /\ \A k \in 1..writesResolved : \A j \in 1..Len(writeCalls[k]) :
              table[writeCalls[k][j].id] = writeCalls[k][j].fields[SUMMARY_FIELD_NAME]
        /\ ~ENABLED WriteResolve
        /\ ~ENABLED CallWriter

\* the second write call was rejected after the first was applied
C7_Witness ==
    /\ outcome = "writeFault"
    /\ writesResolved = 1
    /\ Len(writeCalls) = 2
    /\ Len(passed.list) > 2 * MAX_RECORDS_PER_UPDATE

C9_FlagReflectsLatestRun ==
    RunEndedWithoutFault => (invalidApi <=> outcome = "invalidKey")

\* C9 amended: after a run over at least one row that ends without a fatal
\* fault, whatever the flag was before, invalidApi is true exactly when the run
\* was halted by the sentinel; a run over zero rows leaves the flag as it was.
C9_FlagReflectsLatestResponse ==
    RunEndedWithoutFault =>
        IF Len(records) = 0
        THEN invalidApi = flagBefore /\ outcome = "completed"
        ELSE invalidApi <=> outcome = "invalidKey"

\* a run over some rows completed and cleared the flag an earlier run had set
C9_Witness ==
    /\ RunEndedWithoutFault
    /\ outcome = "completed"
    /\ flagBefore
    /\ Len(records) >= 1
    /\ ~invalidApi

\* C10: every run that has ended, whether completed, halted by an invalid key
\* or aborted by a fault, has isUpdateInProgress reset to false.
C10_EndedRunResetsInProgress ==
    pc = "idle" /\ inFlight = 0 /\ outcome \in {"completed", "invalidKey", "fetchFault", "writeFault"}
        => ~isUpdateInProgress

====
